---------------------------- MODULE Spec2Model ----------------------------
(***************************************************************************)
(* tailor: tail a file, or run a fallback command with the file appended.  *)
(*                                                                         *)
(* The model follows src/main.rs.  A run is a chain of processes: the      *)
(* root invocation of tailor and, whenever a fallback names tailor itself, *)
(* the child invocation it waits for.  External commands (tail, touch)     *)
(* run to completion in one step and hand back a wait status.  Only the    *)
(* commands of the chain change the filesystem: no other process touches   *)
(* it while the chain runs.                                                *)
(***************************************************************************)
EXTENDS Integers, Sequences, FiniteSets

\* ------------------------------------------------------------------ bounds
MaxCmdLen == 4      \* longest fallback command list given to the root
MaxCode == 2        \* external commands fail with a code in 1..MaxCode
MaxSpecial == 1     \* initial entries that are neither absent nor plain files

\* --------------------------------------------------------------- constants
GenericFailure == 1 \* exit code of a Rust main that returns Err
NoCode == -1        \* status.code().unwrap_or(-1)
StatusModulus == 256 \* a wait status carries the low 8 bits of the exit code

\* ----------------------------------------------------------------- universe
Paths == {"file1", "file2", "file3"}
Program == "tailor"
Tokens == Paths \cup {Program, "touch"}
\* executables found on PATH; any other name fails to spawn
OnPath == {Program, "tail", "touch"}

Kinds == {"absent", "file", "unreadable", "dir", "noaccess"}
SpecialKinds == {"unreadable", "dir", "noaccess"}

RECURSIVE SeqsUpTo(_, _)
SeqsUpTo(S, n) ==
    IF n = 0 THEN {<<>>}
    ELSE LET shorter == SeqsUpTo(S, n - 1)
         IN  shorter \cup {Append(s, x) : s \in {t \in shorter : Len(t) = n - 1}, x \in S}

VARIABLES
    fs,       \* the filesystem: name -> kind of the entry at that name
    fs0,      \* the filesystem when the root invocation started
    procs     \* the chain of tailor processes, procs[i+1] the child of procs[i]

vars == <<fs, fs0, procs>>

\* ------------------------------------------------------------- filesystem
\* std::fs::metadata follows the path and stats the entry
MetadataOk(k) == k \in {"file", "unreadable", "dir"}
\* Path::exists is fs::metadata(path).is_ok(): any stat failure reads as absent
PathExists(k) == MetadataOk(k)
IsDir(k) == k = "dir"
\* File::open opens read-only; a directory opens, an unreadable file does not
OpenOk(k) == k \in {"file", "dir"}

\* slip: the directory test is left out
CanTailFile_NoDirCheck(k) ==
    IF ~PathExists(k) THEN "false"
    ELSE IF ~MetadataOk(k) THEN "err"
    ELSE IF OpenOk(k) THEN "true"
    ELSE "false"

\* Ok(true), Ok(false) or Err.  Both probes of lines 55 and 58 stat the same
\* entry, so the Err of line 59 needs the entry to change between them.
CanTailFile(k) ==
    IF ~PathExists(k) THEN "false"
    ELSE IF ~MetadataOk(k) THEN "err"
    ELSE IF IsDir(k) THEN "false"
    ELSE IF OpenOk(k) THEN "true"
    ELSE "false"

\* ----------------------------------------------------------- exit statuses
NoStatus == [kind |-> "none", code |-> 0]
Exited(c) == [kind |-> "exited", code |-> c]
Signaled == [kind |-> "signaled", code |-> 0]

\* ExitStatus::success
Success(st) == st.kind = "exited" /\ st.code = 0
\* slip: a missing code defaults to 0
ExitCodeOf_ZeroDefault(st) == IF st.kind = "exited" THEN st.code ELSE 0

\* status.code().unwrap_or(-1)
ExitCodeOf(st) == IF st.kind = "exited" THEN st.code ELSE NoCode
\* what the parent's wait reports for a child that called exit(c)
WaitStatus(c) == Exited(c % StatusModulus)

\* ------------------------------------------------------------- processes
NewProc(file, command) ==
    [file |-> file, command |-> command, pc |-> "start",
     tailable |-> "unknown", kind |-> "unknown",
     cmd |-> "", cargs |-> <<>>, spawned |-> <<>>,
     status |-> NoStatus, how |-> "running", err |-> "none", code |-> 0]

\* main returns Err(e): the runtime prints it and exits with the generic code
Fail(p, e) == [p EXCEPT !.pc = "exited", !.how = "error", !.err = e,
                        !.code = GenericFailure]

\* slip: the file is put in front of the fallback's own arguments
FallbackArgs_FileFirst(command, file) == <<file>> \o Tail(command)

\* arguments handed to the fallback: its own, then the file
FallbackArgs(command, file) == Append(Tail(command), file)

Top == Len(procs)

\* slip: tail is handed the fallback list as well
MainTail_WithFallbackArgs ==
    LET p == procs[Top] IN
    /\ p.pc = "start"
    /\ CanTailFile(fs[p.file]) = "true"
    /\ procs' = [procs EXCEPT ![Top] =
            [p EXCEPT !.pc = "run", !.tailable = "true", !.kind = fs[p.file],
                      !.cmd = "tail", !.cargs = Append(p.command, p.file)]]
    /\ UNCHANGED <<fs, fs0>>

\* main, lines 31-33: the file is tailable, so run_command("tail", [file])
MainTail ==
    LET p == procs[Top] IN
    /\ p.pc = "start"
    /\ CanTailFile(fs[p.file]) = "true"
    /\ procs' = [procs EXCEPT ![Top] =
            [p EXCEPT !.pc = "run", !.tailable = "true", !.kind = fs[p.file],
                      !.cmd = "tail", !.cargs = <<p.file>>]]
    /\ UNCHANGED <<fs, fs0>>

\* slip: the missing fallback is passed over and main returns Ok
MainNoFallback_Silent ==
    LET p == procs[Top]
        r == CanTailFile(fs[p.file])
    IN
    /\ p.pc = "start"
    /\ r = "err" \/ (r = "false" /\ p.command = <<>>)
    /\ procs' = [procs EXCEPT ![Top] =
            [p EXCEPT !.tailable = r, !.kind = fs[p.file],
                      !.pc = "exited", !.how = "return", !.code = 0]]
    /\ UNCHANGED <<fs, fs0>>

\* main, lines 34-39: not tailable and no fallback command: bail!
\* (line 31's `?` returns can_tail_file's error the same way)
MainNoFallback ==
    LET p == procs[Top]
        r == CanTailFile(fs[p.file])
        q == [p EXCEPT !.tailable = r, !.kind = fs[p.file]]
    IN
    /\ p.pc = "start"
    /\ r = "err" \/ (r = "false" /\ p.command = <<>>)
    /\ procs' = [procs EXCEPT ![Top] =
            IF r = "err" THEN Fail(q, "metadata") ELSE Fail(q, "nofallback")]
    /\ UNCHANGED <<fs, fs0>>

\* slip: the fallback's own arguments are dropped, only the file is passed
MainFallback_DropsArgs ==
    LET p == procs[Top] IN
    /\ p.pc = "start"
    /\ CanTailFile(fs[p.file]) = "false"
    /\ p.command # <<>>
    /\ procs' = [procs EXCEPT ![Top] =
            [p EXCEPT !.pc = "run", !.tailable = "false", !.kind = fs[p.file],
                      !.cmd = p.command[1], !.cargs = <<p.file>>]]
    /\ UNCHANGED <<fs, fs0>>

\* main, lines 40-48: not tailable, run the fallback with the file appended
MainFallback ==
    LET p == procs[Top] IN
    /\ p.pc = "start"
    /\ CanTailFile(fs[p.file]) = "false"
    /\ p.command # <<>>
    /\ procs' = [procs EXCEPT ![Top] =
            [p EXCEPT !.pc = "run", !.tailable = "false", !.kind = fs[p.file],
                      !.cmd = p.command[1],
                      !.cargs = FallbackArgs(p.command, p.file)]]
    /\ UNCHANGED <<fs, fs0>>

\* ------------------------------------------------------ external commands
\* touch creates every missing operand it can reach
Touch(f, args) ==
    [t \in DOMAIN f |->
        IF f[t] = "absent" /\ \E j \in DOMAIN args : args[j] = t THEN "file" ELSE f[t]]

TouchCode(f, args) ==
    IF \E j \in DOMAIN args : f[args[j]] = "noaccess" THEN 1 ELSE 0

\* a command may also fail for its own reasons, or be killed by a signal
Failures == {Exited(c) : c \in 1..MaxCode} \cup {Signaled}

\* the wait statuses and filesystems an external command can end with
Outcomes(cmd, args, f) ==
    IF cmd = "touch"
    THEN {[status |-> Exited(TouchCode(f, args)), fs |-> Touch(f, args)]}
            \cup {[status |-> st, fs |-> f] : st \in Failures}
    ELSE {[status |-> st, fs |-> f] : st \in {Exited(0)} \cup Failures}

\* -------------------------------------------------------------- run_command
\* slip: a failed spawn is reported the way a shell does, by exit(127)
SpawnFails_Exit127 ==
    LET p == procs[Top] IN
    /\ p.pc = "run"
    /\ p.cmd \notin OnPath
    /\ procs' = [procs EXCEPT ![Top] =
            [p EXCEPT !.pc = "exited", !.how = "exit", !.code = 127]]
    /\ UNCHANGED <<fs, fs0>>

\* lines 74-78: the spawn fails, `?` returns the error up through main
SpawnFails ==
    LET p == procs[Top] IN
    /\ p.pc = "run"
    /\ p.cmd \notin OnPath
    /\ procs' = [procs EXCEPT ![Top] = Fail(p, "spawn")]
    /\ UNCHANGED <<fs, fs0>>

\* lines 74-78: an external command is spawned and runs to completion
RunExternal ==
    LET p == procs[Top] IN
    /\ p.pc = "run"
    /\ p.cmd \in OnPath \ {Program}
    /\ \E o \in Outcomes(p.cmd, p.cargs, fs) :
          /\ fs' = o.fs
          /\ procs' = [procs EXCEPT ![Top] =
                [p EXCEPT !.pc = "status", !.status = o.status,
                          !.spawned = Append(@, [cmd |-> p.cmd, args |-> p.cargs])]]
    /\ UNCHANGED fs0

\* slip: the child is started with the argument list the parent received
SpawnSelf_SameArgs ==
    LET p == procs[Top] IN
    /\ p.pc = "run"
    /\ p.cmd = Program
    /\ procs' = Append(
          [procs EXCEPT ![Top] =
                [p EXCEPT !.pc = "wait",
                          !.spawned = Append(@, [cmd |-> p.cmd, args |-> p.cargs])]],
          NewProc(p.file, p.command))
    /\ UNCHANGED <<fs, fs0>>

\* lines 74-78: the command is tailor itself; clap takes the first argument
\* as the file and the rest as the fallback command of the child
SpawnSelf ==
    LET p == procs[Top] IN
    /\ p.pc = "run"
    /\ p.cmd = Program
    /\ procs' = Append(
          [procs EXCEPT ![Top] =
                [p EXCEPT !.pc = "wait",
                          !.spawned = Append(@, [cmd |-> p.cmd, args |-> p.cargs])]],
          NewProc(Head(p.cargs), Tail(p.cargs)))
    /\ UNCHANGED <<fs, fs0>>

\* cmd.status() returns in the parent once the child tailor has exited
Wait ==
    /\ \E i \in DOMAIN procs :
          /\ i < Len(procs)
          /\ procs[i].pc = "wait"
          /\ procs[i + 1].pc = "exited"
          /\ procs' = [procs EXCEPT ![i] =
                [@ EXCEPT !.pc = "status", !.status = WaitStatus(procs[i + 1].code)]]
    /\ UNCHANGED <<fs, fs0>>

\* slip: the child's failure is returned as an ordinary error
RunCommandExit_AsError(p) == Fail(p, "child")

\* lines 79-83: the child failed: log, then std::process::exit(exit_code)
RunCommandExit(p) ==
    [p EXCEPT !.pc = "exited", !.how = "exit", !.code = ExitCodeOf(p.status)]

\* line 84 and line 51: Ok(()) all the way out of main
RunCommandOk(p) ==
    [p EXCEPT !.pc = "exited", !.how = "return", !.code = 0]

ChildFailed ==
    /\ \E i \in DOMAIN procs :
          /\ procs[i].pc = "status"
          /\ ~Success(procs[i].status)
          /\ procs' = [procs EXCEPT ![i] = RunCommandExit(procs[i])]
    /\ UNCHANGED <<fs, fs0>>

ChildSucceeded ==
    /\ \E i \in DOMAIN procs :
          /\ procs[i].pc = "status"
          /\ Success(procs[i].status)
          /\ procs' = [procs EXCEPT ![i] = RunCommandOk(procs[i])]
    /\ UNCHANGED <<fs, fs0>>

\* The root is started on file1 with any fallback list of at most MaxCmdLen
\* tokens.  Nothing distinguishes one path name from another, so every run
\* on another file is a renaming of one of these.  No file is named after an
\* executable, and at most MaxSpecial entries are directories, unreadable
\* files or entries that cannot be examined at all.
Init ==
    /\ fs \in {f \in [Tokens -> Kinds] :
                 /\ \A t \in Tokens \ Paths : f[t] = "absent"
                 /\ Cardinality({t \in Paths : f[t] \in SpecialKinds}) <= MaxSpecial}
    /\ fs0 = fs
    /\ \E command \in SeqsUpTo(Tokens, MaxCmdLen) :
          procs = <<NewProc("file1", command)>>

Next ==
    \/ MainTail
    \/ MainNoFallback
    \/ MainFallback
    \/ SpawnFails
    \/ RunExternal
    \/ SpawnSelf
    \/ Wait
    \/ ChildFailed
    \/ ChildSucceeded

Spec == Init /\ [][Next]_vars

\* every process runs straight-line code and blocks only in cmd.status(),
\* so some enabled step is always eventually taken
LiveSpec == Spec /\ WF_vars(Next)

\* --------------------------------------------------------------- vocabulary
Root == procs[1]
Last == procs[Len(procs)]
Invocation(cmd, args) == [cmd |-> cmd, args |-> args]
EntryExists(k) == k # "absent"

\* C1: a child that exits with a non-zero code N makes the process exit at
\* once with code N, by process::exit, without returning to main and without
\* spawning anything further.
C1_ChildCodeBecomesExitCode ==
    [][\A i \in DOMAIN procs :
          (procs[i].pc = "status" /\ procs[i].status.kind = "exited"
                /\ procs[i].status.code # 0)
          => /\ Len(procs') = Len(procs)
             /\ procs'[i].pc = "exited"
             /\ procs'[i].how = "exit"
             /\ procs'[i].how # "error"
             /\ procs'[i].code = procs[i].status.code
             /\ procs'[i].spawned = procs[i].spawned]_vars

C1_Witness ==
    \E i \in DOMAIN procs :
        /\ procs[i].pc = "exited"
        /\ procs[i].status.kind = "exited"
        /\ procs[i].status.code > GenericFailure
        /\ procs[i].code = procs[i].status.code

\* C2: on the fallback branch the one command spawned is the first element of
\* the fallback list, with the remaining elements in order and then the file
\* as its last argument.
C2_FallbackInvocation ==
    \A i \in DOMAIN procs :
        LET p == procs[i]
            n == Len(p.command)
            expected == [j \in 1..n |-> IF j < n THEN p.command[j + 1] ELSE p.file]
        IN  (p.tailable = "false" /\ n > 0)
            => /\ p.cmd = p.command[1]
               /\ p.cargs = expected
               /\ Len(p.spawned) <= 1
               /\ \A j \in DOMAIN p.spawned :
                     p.spawned[j] = Invocation(p.command[1], expected)
               /\ p.pc \in {"wait", "status"} => Len(p.spawned) = 1

C2_Witness ==
    \E i \in DOMAIN procs :
        /\ procs[i].tailable = "false"
        /\ Len(procs[i].command) >= 3
        /\ procs[i].command[2] # procs[i].file
        /\ Len(procs[i].spawned) = 1
        /\ procs[i].pc = "exited"

\* C3: an invocation that found its file tailable spawns nothing but
\* `tail <file>`, once, whatever its fallback list and whatever tail returns.
C3_TailableRunsOnlyTail ==
    \A i \in DOMAIN procs :
        LET p == procs[i] IN
        p.tailable = "true"
        => /\ Len(p.spawned) <= 1
           /\ \A j \in DOMAIN p.spawned : p.spawned[j] = Invocation("tail", <<p.file>>)
           /\ p.pc = "run" => (p.cmd = "tail" /\ p.cargs = <<p.file>>)
           /\ p.pc \in {"status", "exited"} => Len(p.spawned) = 1
           /\ i = Len(procs)

C3_Witness ==
    \E i \in DOMAIN procs :
        /\ procs[i].tailable = "true"
        /\ procs[i].command # <<>>
        /\ procs[i].pc = "exited"
        /\ ~Success(procs[i].status)

\* C4: not tailable and no fallback command: nothing is spawned and the
\* process ends with the generic failure and the no-fallback message.
C4_NoFallbackFails ==
    \A i \in DOMAIN procs :
        LET p == procs[i] IN
        (p.kind # "unknown" /\ ~(EntryExists(p.kind) /\ ~IsDir(p.kind) /\ OpenOk(p.kind))
            /\ p.command = <<>>)
        => /\ p.pc = "exited"
           /\ p.how = "error"
           /\ p.err = "nofallback"
           /\ p.code = GenericFailure
           /\ p.code # 0
           /\ p.spawned = <<>>
           /\ i = Len(procs)

C4_Witness ==
    \E i \in DOMAIN procs :
        /\ procs[i].kind \in {"absent", "dir", "unreadable"}
        /\ procs[i].command = <<>>
        /\ procs[i].pc = "exited"

\* C5: `tailor a tailor b touch c` with a, b, c all missing at the start:
\* both levels fall through, touch receives c, a, b, and once the root has
\* exited its code is the one touch produced; when touch succeeded all three
\* files exist and the code is 0.
ChainRun(a, b, c) ==
    /\ Root.file = a
    /\ Root.command = <<Program, b, "touch", c>>
    /\ fs0[a] = "absent" /\ fs0[b] = "absent" /\ fs0[c] = "absent"

C5_ChainCreatesAllThree ==
    \A a, b, c \in Paths :
        (ChainRun(a, b, c) /\ Root.pc = "exited")
        => /\ Len(procs) = 2
           /\ Root.tailable = "false"
           /\ Last.tailable = "false"
           /\ Root.spawned = <<Invocation(Program, <<b, "touch", c, a>>)>>
           /\ Last.spawned = <<Invocation("touch", <<c, a, b>>)>>
           /\ Last.status.kind = "exited" => Root.code = Last.status.code
           /\ Success(Last.status)
                => (fs[a] = "file" /\ fs[b] = "file" /\ fs[c] = "file" /\ Root.code = 0)

C5_Witness ==
    /\ ChainRun("file1", "file2", "file3")
    /\ Root.pc = "exited"
    /\ Root.code = 0
    /\ fs["file1"] = "file" /\ fs["file2"] = "file" /\ fs["file3"] = "file"

\* C6: can_tail_file answers true exactly when the entry exists, is not a
\* directory and opens for reading; for a missing path, a directory and an
\* unreadable file the answer is false, not an error.
C6_TailableIffReadableFile ==
    \A i \in DOMAIN procs :
        LET p == procs[i] IN
        p.kind # "unknown"
        => /\ (p.tailable = "true")
                <=> (EntryExists(p.kind) /\ p.kind # "dir" /\ p.kind # "unreadable"
                        /\ p.kind # "noaccess")
           /\ p.kind \in {"absent", "dir", "unreadable"} => p.tailable = "false"

C6_Witness ==
    /\ Len(procs) >= 3
    /\ procs[1].kind = "dir"
    /\ procs[2].kind = "unreadable" \/ procs[2].kind = "absent"
    /\ procs[3].kind = "file"
    /\ procs[3].tailable = "true"

\* C7: a path whose metadata cannot be retrieved for a reason other than
\* non-existence makes the process abort with the metadata error, spawning
\* nothing, instead of taking the fallback branch.
C7_StatFailureIsFatal ==
    \A i \in DOMAIN procs :
        LET p == procs[i] IN
        p.kind = "noaccess"
        => /\ p.pc = "exited"
           /\ p.how = "error"
           /\ p.err = "metadata"
           /\ p.spawned = <<>>

\* C8: when the spawn itself fails the process ends through the error return
\* of main with the generic failure, never through the exit-code passthrough,
\* and no child status is involved.
C8_SpawnFailureIsAnError ==
    \A i \in DOMAIN procs :
        LET p == procs[i] IN
        (p.pc \notin {"start", "run"} /\ p.cmd # "" /\ p.cmd \notin OnPath)
        => /\ p.pc = "exited"
           /\ p.how = "error"
           /\ p.err = "spawn"
           /\ p.code = GenericFailure
           /\ p.status = NoStatus
           /\ p.spawned = <<>>

C8_Witness ==
    \E i \in DOMAIN procs :
        /\ procs[i].pc = "exited"
        /\ procs[i].tailable = "false"
        /\ procs[i].cmd \in Paths
        /\ procs[i].err = "spawn"

\* C9: a self-invocation chain terminates: each child receives one argument
\* fewer than its parent, the depth never exceeds the number of arguments of
\* the root, every run reaches the exit of the root, and when no executable
\* is unknown the innermost level ended by running a terminal command or with
\* the no-fallback error, whose code every outer level carries.
ArgCount(p) == 1 + Len(p.command)

ChainShrinks ==
    /\ \A i \in DOMAIN procs : i < Len(procs) => ArgCount(procs[i + 1]) = ArgCount(procs[i]) - 1
    /\ Len(procs) <= ArgCount(Root)

ChainPropagates ==
    (Root.pc = "exited" /\ \A i \in DOMAIN procs : procs[i].cmd \in OnPath \cup {""})
    => /\ \/ Last.err = "nofallback"
          \/ /\ Len(Last.spawned) = 1
             /\ Last.spawned[1].cmd \in OnPath \ {Program}
       /\ \A i \in DOMAIN procs :
             /\ procs[i].pc = "exited"
             /\ procs[i].code % StatusModulus = Last.code % StatusModulus

C9_ChainTerminates ==
    /\ [](ChainShrinks /\ ChainPropagates)
    /\ <>(Root.pc = "exited")

C9_Witness ==
    /\ Len(procs) >= 3
    /\ Len(procs) = ArgCount(Root)
    /\ Last.err = "nofallback"
    /\ Root.pc = "exited"

\* C10: a child killed by a signal has no exit code: the process exits with
\* -1, which its own parent observes as 255, and every level above exits
\* with 255 in turn; the exit status is never zero.
C10_SignalBecomes255 ==
    \A i \in DOMAIN procs :
        LET p == procs[i] IN
        (p.pc = "exited" /\ p.status.kind = "signaled")
        => /\ p.how = "exit"
           /\ p.code = -1
           /\ p.code % 256 = 255
           /\ \A j \in 1..i : procs[j].how = "exit" => procs[j].code % 256 # 0
           /\ \A j \in 1..(i - 1) :
                 /\ procs[j].pc \in {"status", "exited"} => procs[j].status = Exited(255)
                 /\ procs[j].pc = "exited" => (procs[j].how = "exit" /\ procs[j].code = 255)

C10_Witness ==
    /\ Len(procs) >= 3
    /\ Last.status.kind = "signaled"
    /\ Root.pc = "exited"
    /\ Root.code = 255
=============================================================================
